---- MODULE Spec2Model ----
(***************************************************************************)
(* Mutations of the vds server (update_item / PATCH /items/:id and         *)
(* PATCH /attributes/:id) running concurrently against one Dolt database   *)
(* through the shared Kysely pool.                                         *)
(*                                                                         *)
(* Every statement of a handler is sent with `.execute(db)` on the pool,   *)
(* with no transaction around it: each statement is one atomic step, and   *)
(* the steps of different invocations interleave at every `await`.         *)
(* The store has one line of history (main).  All connections share its    *)
(* working set and its staging area; DOLT_ADD('-A') stages the whole       *)
(* working set and DOLT_COMMIT commits whatever is staged.                 *)
(***************************************************************************)
EXTENDS Naturals, FiniteSets, Sequences

\* number of mutation invocations (requests) in one run
NumProcs == 2

Procs == 1 .. NumProcs

\* items present in the store, and an id no row has
Items == {"X", "Y"}
MissingItem == "Z"
ItemIds == Items \cup {MissingItem}

\* attribute types present in attribute_types, and a type_id no row has
TypeIds == {"T"}
UnknownType == "U"

\* `version` / If-Match omitted
NoVersion == 0

\* `body` / attributes.set omitted
NoAttr == "none"

\* the mutation handlers modelled: update_item / PATCH /items/:id, and
\* PATCH /attributes/:id
Routes == {"items", "attributes"}

\* the handler compares the supplied version / If-Match with HEAD before it
\* enters withAutoCommit
ChecksVersion(route) == route = "items"

\* the first statement of the handler's unit of work
UnitOfWork(route) ==
    CASE route = "items" -> "body"
      [] route = "attributes" -> "attrUpdate"
      [] route = "itemAttributes" -> "getItem"
      [] route = "attributeTypes" -> "countUsage"

\* a (row, column) of the database: an item's body, or the value of the
\* attribute (item, type); value 0 is the state at server start
Cells == (Items \X {"body"}) \cup (Items \X TypeIds)

Snapshots == [Cells -> 0 .. NumProcs]

\* connections of the mysql2 pool behind the Kysely instance `db`
Conns == {"c1", "c2"}
NoConn == "none"

VARIABLES
    commits,    \* history of main: commits[h] is the commit with hash h
    staged,     \* staging area of main (shared by all connections)
    ws,         \* working set of main (shared by all connections)
    pc,         \* position of each invocation in its handler
    req,        \* arguments of each invocation
    startHead,  \* HEAD of main when the invocation was made (history variable)
    seenHead,   \* `head` read by checkVersion (0: nothing read)
    thrown,     \* error thrown out of the handler body, if any
    outcome,    \* what the front end answered
    details,    \* details.head of a CONFLICT answer
    result,     \* value returned by the unit of work (the row read last)
    newVersion, \* commitHash answered on success
    wrote,      \* cells this invocation wrote (history variable)
    dirty,      \* cells it read holding another invocation's uncommitted write
    conn        \* pool connection the invocation's latest statement ran on

vars == <<commits, staged, ws, pc, req, startHead, seenHead, thrown, outcome,
          details, result, newVersion, wrote, dirty, conn>>

store == <<commits, staged, ws>>

----------------------------------------------------------------------------
\* lib/dolt.ts and the store

\* SELECT DOLT_HASHOF('HEAD'): the hash of the tip of main
doltHead == Len(commits)

\* the committed state at main's HEAD
HeadData == commits[Len(commits)].data

\* CALL DOLT_COMMIT('-m', message) fails when nothing is staged
NothingToCommit == staged = HeadData

\* asOfTable leaving the AS OF clause out
asOfTableIgnored(asOf) == ws

\* lib/dolt.ts asOfTable: the tables a query reads, the working set of main
\* without as_of, else the tables AS OF the commit hash given
asOfTable(asOf) == IF asOf = NoVersion THEN ws ELSE commits[asOf].data

\* checkVersion never reporting a moved head
checkVersionIgnored(version, head) == NoVersion

\* checkVersion answering the supplied version instead of the head it read
checkVersionEchoesVersion(version, head) ==
    IF version = NoVersion THEN NoVersion
    ELSE IF head # version THEN version
    ELSE NoVersion

\* checkVersion whose comparison never finds the head equal to the version
checkVersionAlwaysMoved(version, head) ==
    IF version = NoVersion THEN NoVersion ELSE head

\* mcp/tools.ts checkVersion: the current head if it differs from the
\* supplied version, else null (0)
checkVersion(version, head) ==
    IF version = NoVersion THEN NoVersion
    ELSE IF head # version THEN head
    ELSE NoVersion

\* lib/errors.ts: the subclasses of AppError, and AppError itself
AppErrors == {"AppError", "NotFoundError", "ConflictError", "InUseError"}

\* toMcpError testing `instanceof AppError` before its subclasses
toMcpErrorBaseFirst(err) ==
    IF err \in AppErrors THEN "BAD_REQUEST" ELSE "INTERNAL"

\* mcp/tools.ts toMcpError
toMcpError(err) ==
    CASE err = "InUseError" -> "IN_USE"
      [] err = "NotFoundError" -> "NOT_FOUND"
      [] err = "ConflictError" -> "CONFLICT"
      [] err = "AppError" -> "BAD_REQUEST"
      [] OTHER -> "INTERNAL"

\* api/app.ts app.onError: an AppError is answered with its own status and
\* message, anything else with 500 and a fixed text
onError(err) ==
    CASE err = "NotFoundError" -> "404 not found"
      [] err = "InUseError" -> "409 still in use"
      [] err = "ConflictError" -> "409 Conflict"
      [] err = "AppError" -> "400 Bad request"
      [] OTHER -> "500 Internal server error"

\* what the front end of request r answers when err is thrown: handleMcp
\* catches for the MCP tools, app.onError for the REST routes
Answer(r, err) == IF r.front = "rest" THEN onError(err) ELSE toMcpError(err)

\* the answer to a version / If-Match that is not HEAD
Conflict(r) == IF r.front = "rest" THEN "409 Conflict" ELSE "CONFLICT"

\* the answer to an update that asks for nothing
NoUpdates(r) == IF r.front = "rest" THEN "400 No updates provided"
                ELSE "BAD_REQUEST"

\* withAutoCommit committing whether or not fn threw
AfterFnAlwaysCommit(err) == "add"

\* AfterBody sending the unit of work back to its first statement
AfterBodyAgain(r) == "body"

\* the statement of the unit of work that follows the first one: the
\* upsert when attributes.set is given, else the closing getItem
AfterBody(r) == IF r.attr = NoAttr THEN "read" ELSE "attrs"

\* lib/dolt.ts withAutoCommit: `await fn()` comes first, so an error of
\* fn leaves withAutoCommit before doltCommit is called
AfterFn(err) == IF err = "none" THEN "add" ELSE "done"

\* UPDATE / INSERT ... ON DUPLICATE KEY UPDATE of one cell, autocommitted
\* into the shared working set
WriteCell(db, cell, val) == [db EXCEPT ![cell] = val]

\* invocations that have been started and have not answered yet
InFlight == {p \in Procs : pc[p] \notin {"idle", "done"}}

\* what a SELECT of `cells` shows of other invocations' work in progress:
\* the cells holding a value that an invocation still in flight wrote and
\* that is in no commit (a cell's value names the invocation that wrote it)
DirtyRead(p, cells) ==
    {c \in cells : /\ ws[c] \notin {0, p}
                   /\ ws[c] # HeadData[c]
                   /\ pc[ws[c]] # "done"}

\* a request; PATCH /attributes/:id names its row by (id, attr) and has no
\* item body
Requests ==
    [route : Routes, front : {"mcp"}, id : ItemIds, body : BOOLEAN,
     attr : TypeIds \cup {UnknownType, NoAttr}, version : Nat]

NoRequest == [route |-> "items", front |-> "mcp", id |-> MissingItem,
              body |-> FALSE, attr |-> NoAttr, version |-> NoVersion]

\* the handler's statement that follows the parsing of the request
AfterInvoke(r) ==
    IF ChecksVersion(r.route) /\ r.version # NoVersion THEN "check"
    ELSE UnitOfWork(r.route)

----------------------------------------------------------------------------
Init ==
    /\ commits = << [data |-> [c \in Cells |-> 0], by |-> 0] >>
    /\ staged = [c \in Cells |-> 0]
    /\ ws = [c \in Cells |-> 0]
    /\ pc = [p \in Procs |-> "idle"]
    /\ req = [p \in Procs |-> NoRequest]
    /\ startHead = [p \in Procs |-> NoVersion]
    /\ seenHead = [p \in Procs |-> NoVersion]
    /\ thrown = [p \in Procs |-> "none"]
    /\ outcome = [p \in Procs |-> "pending"]
    /\ details = [p \in Procs |-> NoVersion]
    /\ result = [p \in Procs |-> 0]
    /\ newVersion = [p \in Procs |-> NoVersion]
    /\ wrote = [p \in Procs |-> {}]
    /\ dirty = [p \in Procs |-> {}]
    /\ conn = [p \in Procs |-> NoConn]

\* `.execute()` on the Kysely instance: the statement runs on a connection
\* the pool hands out for this statement alone; which one is free depends
\* on the statements of other requests that are in progress
Execute(p) == \E c \in Conns : conn' = [conn EXCEPT ![p] = c]

\* the handler answers: an error is mapped by handleMcp / toMcpError
Fail(p, err) ==
    /\ thrown' = [thrown EXCEPT ![p] = err]
    /\ outcome' = [outcome EXCEPT ![p] = Answer(req[p], err)]
    /\ pc' = [pc EXCEPT ![p] = AfterFn(err)]

\* a handler is called: arguments are parsed and update_item refuses the
\* empty update before anything is read; without a version checkVersion
\* answers null without a statement and the unit of work is next
Invoke(p) ==
    /\ pc[p] = "idle"
    /\ \E route \in Routes, id \in ItemIds, body \in BOOLEAN,
          attr \in TypeIds \cup {UnknownType, NoAttr},
          version \in {NoVersion} \cup (1 .. Len(commits)) :
        /\ route = "attributes" => (~body /\ attr \in TypeIds)
        /\ req' = [req EXCEPT ![p] = [route |-> route, front |-> "mcp",
                                      id |-> id, body |-> body,
                                      attr |-> attr, version |-> version]]
        /\ startHead' = [startHead EXCEPT ![p] = doltHead]
        /\ IF route = "items" /\ ~body /\ attr = NoAttr
           THEN /\ outcome' = [outcome EXCEPT ![p] = NoUpdates(req'[p])]
                /\ pc' = [pc EXCEPT ![p] = "done"]
           ELSE /\ outcome' = outcome
                /\ pc' = [pc EXCEPT ![p] = AfterInvoke(req'[p])]
    /\ UNCHANGED <<store, seenHead, thrown, details, result, newVersion, wrote,
                   dirty>>
    /\ UNCHANGED conn

\* CheckVersion answering CONFLICT together with the row as it now reads
CheckVersionPartial(p) ==
    /\ pc[p] = "check"
    /\ seenHead' = [seenHead EXCEPT ![p] = doltHead]
    /\ LET head == checkVersion(req[p].version, doltHead) IN
       IF head # NoVersion
       THEN /\ outcome' = [outcome EXCEPT ![p] = Conflict(req[p])]
            /\ details' = [details EXCEPT ![p] = head]
            /\ result' = [result EXCEPT ![p] =
                            IF req[p].id \in Items
                            THEN ws[<<req[p].id, "body">>] ELSE 0]
            /\ pc' = [pc EXCEPT ![p] = "done"]
       ELSE /\ pc' = [pc EXCEPT ![p] = UnitOfWork(req[p].route)]
            /\ UNCHANGED <<outcome, details, result>>
    /\ UNCHANGED <<store, req, startHead, thrown, newVersion, wrote, dirty>>
    /\ Execute(p)

\* const head = await checkVersion(db, version);
\* if (head) return mcpErr("CONFLICT", "Conflict", { head });
CheckVersion(p) ==
    /\ pc[p] = "check"
    /\ seenHead' = [seenHead EXCEPT ![p] = doltHead]
    /\ LET head == checkVersion(req[p].version, doltHead) IN
       IF head # NoVersion
       THEN /\ outcome' = [outcome EXCEPT ![p] = Conflict(req[p])]
            /\ details' = [details EXCEPT ![p] = head]
            /\ pc' = [pc EXCEPT ![p] = "done"]
       ELSE /\ pc' = [pc EXCEPT ![p] = UnitOfWork(req[p].route)]
            /\ UNCHANGED <<outcome, details>>
    /\ UNCHANGED <<store, req, startHead, thrown, result, newVersion, wrote,
                   dirty>>
    /\ Execute(p)

\* first statement of the unit of work: items.updateItem's UPDATE when a
\* body is given, else items.getItem
UowBody(p) ==
    /\ pc[p] = "body"
    /\ IF req[p].id \notin Items
       THEN /\ Fail(p, "NotFoundError")
            /\ UNCHANGED <<ws, wrote, dirty>>
       ELSE /\ IF req[p].body
               THEN /\ ws' = WriteCell(ws, <<req[p].id, "body">>, p)
                    /\ wrote' = [wrote EXCEPT
                                   ![p] = @ \cup {<<req[p].id, "body">>}]
                    /\ pc' = [pc EXCEPT ![p] = "reread"]
                    /\ dirty' = dirty
               ELSE /\ pc' = [pc EXCEPT ![p] = AfterBody(req[p])]
                    /\ dirty' = [dirty EXCEPT ![p] = @ \cup
                          DirtyRead(p, {<<req[p].id, "body">>})]
                    /\ UNCHANGED <<ws, wrote>>
            /\ UNCHANGED <<thrown, outcome>>
    /\ UNCHANGED <<commits, staged, req, startHead, seenHead, details, result,
                   newVersion>>
    /\ Execute(p)

\* items.updateItem ends with getItem(db, id)
UowReread(p) ==
    /\ pc[p] = "reread"
    /\ pc' = [pc EXCEPT ![p] = AfterBody(req[p])]
    /\ UNCHANGED <<store, req, startHead, seenHead, thrown, outcome, details,
                   result, newVersion, wrote, dirty>>
    /\ Execute(p)

\* for (const attr of setAttributes) await attributes.upsertAttribute(...)
\* the insert violates the foreign key on type_id when the type is unknown
UowSetAttr(p) ==
    /\ pc[p] = "attrs"
    /\ IF req[p].attr \notin TypeIds
       THEN /\ Fail(p, "ForeignKeyError")
            /\ UNCHANGED <<ws, wrote>>
       ELSE /\ ws' = WriteCell(ws, <<req[p].id, req[p].attr>>, p)
            /\ wrote' = [wrote EXCEPT
                           ![p] = @ \cup {<<req[p].id, req[p].attr>>}]
            /\ pc' = [pc EXCEPT ![p] = "read"]
            /\ UNCHANGED <<thrown, outcome>>
    /\ UNCHANGED <<commits, staged, req, startHead, seenHead, details, result,
                   newVersion, dirty>>
    /\ Execute(p)

\* return items.getItem(db, id): the unit of work's return value; fn has
\* returned, withAutoCommit goes on to doltCommit
UowRead(p) ==
    /\ pc[p] = "read"
    /\ result' = [result EXCEPT ![p] = ws[<<req[p].id, "body">>]]
    /\ dirty' = [dirty EXCEPT ![p] = @ \cup
                                     DirtyRead(p, {<<req[p].id, "body">>})]
    /\ pc' = [pc EXCEPT ![p] = AfterFn("none")]
    /\ UNCHANGED <<store, req, startHead, seenHead, thrown, outcome, details,
                   newVersion, wrote>>
    /\ Execute(p)

\* attributes.updateAttribute: UPDATE attributes SET value WHERE id; no
\* row updated is a NotFoundError
UpdateAttribute(p) ==
    /\ pc[p] = "attrUpdate"
    /\ IF req[p].id \notin Items
       THEN /\ Fail(p, "NotFoundError")
            /\ UNCHANGED <<ws, wrote>>
       ELSE /\ ws' = WriteCell(ws, <<req[p].id, req[p].attr>>, p)
            /\ wrote' = [wrote EXCEPT
                           ![p] = @ \cup {<<req[p].id, req[p].attr>>}]
            /\ pc' = [pc EXCEPT ![p] = "attrGet"]
            /\ UNCHANGED <<thrown, outcome>>
    /\ UNCHANGED <<commits, staged, req, startHead, seenHead, details, result,
                   newVersion, dirty>>
    /\ Execute(p)

\* updateAttribute ends with getAttribute(db, id), the unit of work's
\* return value
GetAttribute(p) ==
    /\ pc[p] = "attrGet"
    /\ result' = [result EXCEPT ![p] = ws[<<req[p].id, req[p].attr>>]]
    /\ dirty' = [dirty EXCEPT ![p] = @ \cup
                          DirtyRead(p, {<<req[p].id, req[p].attr>>})]
    /\ pc' = [pc EXCEPT ![p] = AfterFn("none")]
    /\ UNCHANGED <<store, req, startHead, seenHead, thrown, outcome, details,
                   newVersion, wrote>>
    /\ Execute(p)

\* doltCommit: CALL DOLT_ADD('-A')
DoltAdd(p) ==
    /\ pc[p] = "add"
    /\ staged' = ws
    /\ pc' = [pc EXCEPT ![p] = "commit"]
    /\ UNCHANGED <<commits, ws, req, startHead, seenHead, thrown, outcome,
                   details, result, newVersion, wrote, dirty>>
    /\ Execute(p)

\* DoltCommit answering the hash HEAD had before the commit was made
DoltCommitParentHash(p) ==
    /\ pc[p] = "commit"
    /\ IF NothingToCommit
       THEN /\ thrown' = [thrown EXCEPT ![p] = "CommitError"]
            /\ outcome' = [outcome EXCEPT ![p] = Answer(req[p], "CommitError")]
            /\ UNCHANGED <<commits, newVersion>>
       ELSE /\ commits' = Append(commits, [data |-> staged, by |-> p])
            /\ newVersion' = [newVersion EXCEPT ![p] = Len(commits)]
            /\ outcome' = [outcome EXCEPT ![p] = "OK"]
            /\ thrown' = thrown
    /\ pc' = [pc EXCEPT ![p] = "done"]
    /\ UNCHANGED <<staged, ws, req, startHead, seenHead, details, result,
                   wrote, dirty>>
    /\ Execute(p)

\* DoltCommit answering the row as it reads after the commit instead of the
\* value the unit of work returned
DoltCommitRereads(p) ==
    /\ pc[p] = "commit"
    /\ IF NothingToCommit
       THEN /\ thrown' = [thrown EXCEPT ![p] = "CommitError"]
            /\ outcome' = [outcome EXCEPT ![p] = Answer(req[p], "CommitError")]
            /\ UNCHANGED <<commits, newVersion, result>>
       ELSE /\ commits' = Append(commits, [data |-> staged, by |-> p])
            /\ newVersion' = [newVersion EXCEPT ![p] = Len(commits) + 1]
            /\ result' = [result EXCEPT ![p] =
                            ws[<<req[p].id, IF req[p].route = "items"
                                            THEN "body" ELSE req[p].attr>>]]
            /\ outcome' = [outcome EXCEPT ![p] = "OK"]
            /\ thrown' = thrown
    /\ pc' = [pc EXCEPT ![p] = "done"]
    /\ UNCHANGED <<staged, ws, req, startHead, seenHead, details, wrote, dirty>>
    /\ Execute(p)

\* doltCommit: CALL DOLT_COMMIT('-m', message), which answers the new
\* commit's hash; then return mcpOk(result, commitHash)
DoltCommit(p) ==
    /\ pc[p] = "commit"
    /\ IF NothingToCommit
       THEN /\ thrown' = [thrown EXCEPT ![p] = "CommitError"]
            /\ outcome' = [outcome EXCEPT ![p] = Answer(req[p], "CommitError")]
            /\ UNCHANGED <<commits, newVersion>>
       ELSE /\ commits' = Append(commits, [data |-> staged, by |-> p])
            /\ newVersion' = [newVersion EXCEPT ![p] = Len(commits) + 1]
            /\ outcome' = [outcome EXCEPT ![p] = "OK"]
            /\ thrown' = thrown
    /\ pc' = [pc EXCEPT ![p] = "done"]
    /\ UNCHANGED <<staged, ws, req, startHead, seenHead, details, result,
                   wrote, dirty>>
    /\ Execute(p)

Next ==
    \E p \in Procs :
        \/ Invoke(p)
        \/ CheckVersion(p)
        \/ UowBody(p)
        \/ UowReread(p)
        \/ UowSetAttr(p)
        \/ UowRead(p)
        \/ UpdateAttribute(p)
        \/ GetAttribute(p)
        \/ DoltAdd(p)
        \/ DoltCommit(p)

Spec == Init /\ [][Next]_vars

\* the statements an invocation sends once it has been made
Statement(p) ==
    \/ CheckVersion(p)
    \/ UowBody(p)
    \/ UowReread(p)
    \/ UowSetAttr(p)
    \/ UowRead(p)
    \/ UpdateAttribute(p)
    \/ GetAttribute(p)
    \/ DoltAdd(p)
    \/ DoltCommit(p)

\* the store answers every statement: each handler is a chain of awaits on
\* the pool, and an invocation whose next statement is due gets it run
FairSpec == Spec /\ \A p \in Procs : WF_vars(Statement(p))

TypeOK ==
    /\ ws \in Snapshots
    /\ staged \in Snapshots
    /\ conn \in [Procs -> Conns \cup {NoConn}]
    /\ \A p \in Procs : pc[p] \in {"idle", "check", "body", "reread", "attrs",
                                   "read", "attrUpdate", "attrGet", "add",
                                   "commit", "done"}

----------------------------------------------------------------------------
\* Attribute rows and attribute types: update_item / PATCH /items/:id with
\* attributes.set and attributes.remove, and delete_attribute_type /
\* DELETE /attribute-types/:id, on the tables attributes and attribute_types.
\* Here the state of main is [types, attrs]: the ids in attribute_types and
\* the rows of attributes.

AttrRoutes == {"itemAttributes", "attributeTypes"}

Fronts == {"mcp", "rest"}

\* a row of attributes; value and id name the invocation that set them
\* (0: present at server start)
AttrRows ==
    [item : Items, type : TypeIds, value : 0 .. NumProcs, id : 0 .. NumProcs]

RowsOf(rows, i, t) == {r \in rows : r.item = i /\ r.type = t}

\* SELECT count(id) FROM attributes WHERE type_id = t is above zero; also
\* what FOREIGN KEY (type_id) ... ON DELETE RESTRICT tests
InUse(db, t) == \E r \in db.attrs : r.type = t

\* upsertAttribute as a plain INSERT into a table without the unique key
upsertAttributeInsertOnly(rows, i, t, v, id) ==
    rows \cup {[item |-> i, type |-> t, value |-> v, id |-> id]}

\* attributes.upsertAttribute: INSERT ... ON DUPLICATE KEY UPDATE value,
\* the key being UNIQUE(item_id, type_id)
upsertAttribute(rows, i, t, v, id) ==
    IF RowsOf(rows, i, t) # {}
    THEN {IF r.item = i /\ r.type = t THEN [r EXCEPT !.value = v] ELSE r :
            r \in rows}
    ELSE rows \cup {[item |-> i, type |-> t, value |-> v, id |-> id]}

\* attributes.deleteAttributesByTypeIds
deleteAttributesByTypeIds(rows, i, ts) ==
    {r \in rows : ~(r.item = i /\ r.type \in ts)}

\* the handler's statement that follows the parsing of the request: the
\* REST delete reads the type first and never reads If-Match
AfterInvokeAttrs(r) ==
    IF r.route = "attributeTypes" /\ r.front = "rest" THEN "getType"
    ELSE IF r.version # NoVersion THEN "check"
    ELSE UnitOfWork(r.route)

\* the statement that follows getItem / the upsert loop in update_item
AfterGetItem(r) == IF r.attr # NoAttr THEN "upsert" ELSE "delAttrs"
AfterUpsert(r) == IF r.remove # NoAttr THEN "delAttrs" ELSE "getItem2"

InitAttrs ==
    /\ \E rows \in {{}, {[item |-> "X", type |-> "T", value |-> 0,
                         id |-> 0]}} :
          /\ ws = [types |-> TypeIds, attrs |-> rows]
          /\ staged = [types |-> TypeIds, attrs |-> rows]
          /\ commits = << [data |-> [types |-> TypeIds, attrs |-> rows],
                           by |-> 0] >>
    /\ pc = [p \in Procs |-> "idle"]
    /\ req = [p \in Procs |-> NoRequest]
    /\ startHead = [p \in Procs |-> NoVersion]
    /\ seenHead = [p \in Procs |-> NoVersion]
    /\ thrown = [p \in Procs |-> "none"]
    /\ outcome = [p \in Procs |-> "pending"]
    /\ details = [p \in Procs |-> NoVersion]
    /\ result = [p \in Procs |-> 0]
    /\ newVersion = [p \in Procs |-> NoVersion]
    /\ wrote = [p \in Procs |-> {}]
    /\ dirty = [p \in Procs |-> {}]
    /\ conn = [p \in Procs |-> NoConn]

\* update_item or delete_attribute_type is called through either front end
InvokeAttrs(p) ==
    /\ pc[p] = "idle"
    /\ \E route \in AttrRoutes, front \in Fronts,
          id \in ItemIds \cup TypeIds \cup {UnknownType},
          attr \in TypeIds \cup {NoAttr}, remove \in TypeIds \cup {NoAttr},
          version \in {NoVersion} \cup (1 .. Len(commits)) :
        /\ route = "itemAttributes" => id \in ItemIds
        /\ route = "attributeTypes" =>
              /\ id \in TypeIds \cup {UnknownType}
              /\ attr = NoAttr /\ remove = NoAttr
        /\ req' = [req EXCEPT ![p] = [route |-> route, front |-> front,
                                      id |-> id, body |-> FALSE,
                                      attr |-> attr, remove |-> remove,
                                      version |-> version]]
        /\ startHead' = [startHead EXCEPT ![p] = doltHead]
        /\ IF route = "itemAttributes" /\ attr = NoAttr /\ remove = NoAttr
           THEN /\ outcome' = [outcome EXCEPT ![p] = NoUpdates(req'[p])]
                /\ pc' = [pc EXCEPT ![p] = "done"]
           ELSE /\ outcome' = outcome
                /\ pc' = [pc EXCEPT ![p] = AfterInvokeAttrs(req'[p])]
    /\ UNCHANGED <<store, seenHead, thrown, details, result, newVersion, wrote,
                   dirty, conn>>

\* update_item without a body: await items.getItem(db, id)
UowGetItem(p) ==
    /\ pc[p] = "getItem"
    /\ IF req[p].id \notin Items
       THEN Fail(p, "NotFoundError")
       ELSE /\ pc' = [pc EXCEPT ![p] = AfterGetItem(req[p])]
            /\ UNCHANGED <<thrown, outcome>>
    /\ UNCHANGED <<store, req, startHead, seenHead, details, result,
                   newVersion, wrote, dirty>>
    /\ Execute(p)

\* await attributes.upsertAttribute(db, id, attr.type_id, attr.value); the
\* insert violates the foreign key on type_id when the type has no row
UowUpsert(p) ==
    /\ pc[p] = "upsert"
    /\ IF req[p].attr \notin ws.types
       THEN /\ Fail(p, "ForeignKeyError")
            /\ ws' = ws
       ELSE /\ ws' = [ws EXCEPT !.attrs =
                        upsertAttribute(@, req[p].id, req[p].attr, p, p)]
            /\ pc' = [pc EXCEPT ![p] = AfterUpsert(req[p])]
            /\ UNCHANGED <<thrown, outcome>>
    /\ UNCHANGED <<commits, staged, req, startHead, seenHead, details, result,
                   newVersion, wrote, dirty>>
    /\ Execute(p)

\* await attributes.deleteAttributesByTypeIds(db, id, removeAttributes)
UowRemove(p) ==
    /\ pc[p] = "delAttrs"
    /\ ws' = [ws EXCEPT !.attrs =
                deleteAttributesByTypeIds(@, req[p].id, {req[p].remove})]
    /\ pc' = [pc EXCEPT ![p] = "getItem2"]
    /\ UNCHANGED <<commits, staged, req, startHead, seenHead, thrown, outcome,
                   details, result, newVersion, wrote, dirty>>
    /\ Execute(p)

\* return items.getItem(db, id)
UowReturnItem(p) ==
    /\ pc[p] = "getItem2"
    /\ pc' = [pc EXCEPT ![p] = AfterFn("none")]
    /\ UNCHANGED <<store, req, startHead, seenHead, thrown, outcome, details,
                   result, newVersion, wrote, dirty>>
    /\ Execute(p)

\* DELETE /attribute-types/:id: const type = await getAttributeType(db, id)
GetType(p) ==
    /\ pc[p] = "getType"
    /\ IF req[p].id \notin ws.types
       THEN Fail(p, "NotFoundError")
       ELSE /\ pc' = [pc EXCEPT ![p] = UnitOfWork(req[p].route)]
            /\ UNCHANGED <<thrown, outcome>>
    /\ UNCHANGED <<store, req, startHead, seenHead, details, result,
                   newVersion, wrote, dirty>>
    /\ Execute(p)

\* deleteAttributeType: the usage count, InUseError when above zero
CountUsage(p) ==
    /\ pc[p] = "countUsage"
    /\ IF InUse(ws, req[p].id)
       THEN Fail(p, "InUseError")
       ELSE /\ pc' = [pc EXCEPT ![p] = "deleteType"]
            /\ UNCHANGED <<thrown, outcome>>
    /\ UNCHANGED <<store, req, startHead, seenHead, details, result,
                   newVersion, wrote, dirty>>
    /\ Execute(p)

\* deleteAttributeType: DELETE FROM attribute_types WHERE id; the store
\* refuses it while a row of attributes references the type (ON DELETE
\* RESTRICT), and no row deleted is a NotFoundError
DeleteType(p) ==
    /\ pc[p] = "deleteType"
    /\ IF InUse(ws, req[p].id)
       THEN /\ Fail(p, "ForeignKeyError")
            /\ ws' = ws
       ELSE IF req[p].id \notin ws.types
       THEN /\ Fail(p, "NotFoundError")
            /\ ws' = ws
       ELSE /\ ws' = [ws EXCEPT !.types = @ \ {req[p].id}]
            /\ pc' = [pc EXCEPT ![p] = AfterFn("none")]
            /\ UNCHANGED <<thrown, outcome>>
    /\ UNCHANGED <<commits, staged, req, startHead, seenHead, details, result,
                   newVersion, wrote, dirty>>
    /\ Execute(p)

NextAttrs ==
    \E p \in Procs :
        \/ InvokeAttrs(p)
        \/ CheckVersion(p)
        \/ UowGetItem(p)
        \/ UowUpsert(p)
        \/ UowRemove(p)
        \/ UowReturnItem(p)
        \/ GetType(p)
        \/ CountUsage(p)
        \/ DeleteType(p)
        \/ DoltAdd(p)
        \/ DoltCommit(p)

SpecAttrs == InitAttrs /\ [][NextAttrs]_vars

----------------------------------------------------------------------------
\* The MCP read tools next to the mutations: get_item reads the item, its
\* attributes and its linkages, then reads HEAD and answers both. The
\* other read tools (list_items, list_attribute_types, list_linkages,
\* list_linkage_types) have the same shape: data first, doltHead after.
\* A reader keeps the rows it has read in `result`, as a function from the
\* cells read to their values, and the commit hash it answers in
\* `newVersion`; `dirty` holds the cells it read whose value was in no
\* commit.

ReadTool == "get_item"

IsReader(p) == req[p].route = ReadTool

\* the cells of item i in the table attributes
AttributeCells(i) == {<<i, t>> : t \in TypeIds}

\* of the cells a SELECT reads, those whose value differs from the commit
\* at HEAD; a read with as_of reads a commit
NotCommitted(asOf, cells) ==
    IF asOf = NoVersion THEN {c \in cells : ws[c] # HeadData[c]} ELSE {}

\* get_item is called with an id and, possibly, as_of
InvokeRead(p) ==
    /\ pc[p] = "idle"
    /\ \E id \in ItemIds, asOf \in {NoVersion} \cup (1 .. Len(commits)) :
          req' = [req EXCEPT ![p] = [route |-> ReadTool, front |-> "mcp",
                                     id |-> id, body |-> FALSE,
                                     attr |-> NoAttr, version |-> NoVersion,
                                     as_of |-> asOf]]
    /\ startHead' = [startHead EXCEPT ![p] = doltHead]
    /\ result' = [result EXCEPT ![p] = << >>]
    /\ pc' = [pc EXCEPT ![p] = "readItem"]
    /\ UNCHANGED <<store, seenHead, thrown, outcome, details, newVersion,
                   wrote, dirty, conn>>

\* const item = await items.getItem(db, id, as_of)
ReadGetItem(p) ==
    /\ pc[p] = "readItem"
    /\ IF req[p].id \notin Items
       THEN /\ Fail(p, "NotFoundError")
            /\ UNCHANGED <<result, dirty>>
       ELSE /\ result' = [result EXCEPT ![p] =
                 [c \in {<<req[p].id, "body">>} |->
                     asOfTable(req[p].as_of)[c]]]
            /\ dirty' = [dirty EXCEPT ![p] = @ \cup
                 NotCommitted(req[p].as_of, {<<req[p].id, "body">>})]
            /\ pc' = [pc EXCEPT ![p] = "listAttributes"]
            /\ UNCHANGED <<thrown, outcome>>
    /\ UNCHANGED <<store, req, startHead, seenHead, details, newVersion, wrote>>
    /\ Execute(p)

\* attributes: await attributes.listAttributes(db, id, as_of)
ReadListAttributes(p) ==
    /\ pc[p] = "listAttributes"
    /\ result' = [result EXCEPT ![p] =
          [c \in DOMAIN @ \cup AttributeCells(req[p].id) |->
              IF c \in DOMAIN @ THEN @[c] ELSE asOfTable(req[p].as_of)[c]]]
    /\ dirty' = [dirty EXCEPT ![p] = @ \cup
          NotCommitted(req[p].as_of, AttributeCells(req[p].id))]
    /\ pc' = [pc EXCEPT ![p] = "listLinkages"]
    /\ UNCHANGED <<store, req, startHead, seenHead, thrown, outcome, details,
                   newVersion, wrote>>
    /\ Execute(p)

\* linkages: await linkages.listLinkagesForItem(db, id, "both", as_of);
\* the table linkages is not part of the state
ReadListLinkages(p) ==
    /\ pc[p] = "listLinkages"
    /\ pc' = [pc EXCEPT ![p] = "doltHead"]
    /\ UNCHANGED <<store, req, startHead, seenHead, thrown, outcome, details,
                   result, newVersion, wrote, dirty>>
    /\ Execute(p)

\* const version = await doltHead(db); return mcpOk(response, version)
ReadDoltHead(p) ==
    /\ pc[p] = "doltHead"
    /\ newVersion' = [newVersion EXCEPT ![p] = doltHead]
    /\ outcome' = [outcome EXCEPT ![p] = "OK"]
    /\ pc' = [pc EXCEPT ![p] = "done"]
    /\ UNCHANGED <<store, req, startHead, seenHead, thrown, details, result,
                   wrote, dirty>>
    /\ Execute(p)

NextRead ==
    \/ Next
    \/ \E p \in Procs :
          \/ InvokeRead(p)
          \/ ReadGetItem(p)
          \/ ReadListAttributes(p)
          \/ ReadListLinkages(p)
          \/ ReadDoltHead(p)

SpecRead == Init /\ [][NextRead]_vars

----------------------------------------------------------------------------
\* Vocabulary of the properties

Done(p) == pc[p] = "done"

\* the cells a request asks to write
Writes(p) ==
    IF req[p].id \notin Items THEN {}
    ELSE (IF req[p].body THEN {<<req[p].id, "body">>} ELSE {})
         \cup (IF req[p].attr \in TypeIds
               THEN {<<req[p].id, req[p].attr>>} ELSE {})

\* a request no statement of which can fail: the item exists and the
\* attribute type, when one is set, exists
Valid(p) ==
    /\ req[p].id \in Items
    /\ req[p].attr # UnknownType
    /\ Writes(p) # {}

\* both invocations were made with the same version, which was HEAD when
\* each of them was made: neither had committed when the other began
ConcurrentSameBase(p, q) ==
    /\ p # q
    /\ req[p].version # NoVersion
    /\ req[p].version = req[q].version
    /\ startHead[p] = req[p].version
    /\ startHead[q] = req[q].version

\* the cells commit h changed with respect to its parent
Changed(h) == {c \in Cells : commits[h].data[c] # commits[h - 1].data[c]}

\* the commits made after the first one
NewCommits == 2 .. Len(commits)

\* errors raised by the statements of the unit of work
UowErrors == {"NotFoundError", "ForeignKeyError"}

OnlyWriter(p, c) == \A r \in Procs \ {p} : c \notin wrote[r]

Later(h1, h2) == IF h1 < h2 THEN h2 ELSE h1

----------------------------------------------------------------------------
C2_ExactlyOneWins ==
    \A p, q \in Procs :
        ( /\ ConcurrentSameBase(p, q)
          /\ Done(p) /\ Done(q)
          /\ Valid(p) /\ Valid(q)
          /\ Writes(p) \cap Writes(q) # {} )
        => \E w \in {p, q} :
              /\ outcome[w] = "OK"
              /\ \A l \in {p, q} \ {w} : outcome[l] = "CONFLICT"
              /\ \A c \in Writes(p) \cap Writes(q) :
                    HeadData[c] = w /\ ws[c] = w

\* C3: every commit on main is the atomic record of one mutation: it
\* changes exactly the cells its author's unit of work wrote, to the
\* values its author wrote, and a successful mutation has one commit.
C3_AtomicCommit ==
    /\ \A h \in NewCommits :
          /\ Changed(h) = wrote[commits[h].by]
          /\ \A c \in Changed(h) : commits[h].data[c] = commits[h].by
    /\ \A p \in Procs :
          outcome[p] = "OK" =>
             Cardinality({h \in NewCommits : commits[h].by = p}) = 1

C5_NoVersionSucceeds ==
    \A p \in Procs :
        ( /\ Done(p)
          /\ req[p].version = NoVersion
          /\ Valid(p)
          /\ \A q \in Procs \ {p} : wrote[q] \cap Writes(p) = {} )
        => outcome[p] = "OK"

\* C6: at most one invocation at a time is inside its trunk-modifying
\* window, which opens with its first write to main and closes when its
\* commit has answered.
InTrunkWindow(p) == wrote[p] # {} /\ ~Done(p)

C6_OneTrunkWindow == Cardinality({p \in Procs : InTrunkWindow(p)}) <= 1

\* C8: the unit of work of a mutation never reads a value that another
\* mutation still in flight wrote and that is in no commit.
C8_Isolation == \A p \in Procs : dirty[p] = {}

\* C9: when the unit of work throws E, the invocation ends there with E
\* (answered under E's own code, never as a conflict and never as
\* success), and no commit is made for it.
C9_UowErrorPropagates ==
    \A p \in Procs :
        thrown[p] \in UowErrors
        => /\ Done(p)
           /\ outcome[p] = toMcpError(thrown[p])
           /\ outcome[p] \notin {"OK", "CONFLICT"}
           /\ newVersion[p] = NoVersion
           /\ \A h \in NewCommits : commits[h].by # p

C9_Witness ==
    /\ \E p \in Procs : thrown[p] = "NotFoundError" /\ Done(p)
    /\ \E p \in Procs : thrown[p] = "ForeignKeyError" /\ wrote[p] # {}

\* C10: no write of a mutation whose unit of work threw is ever part of a
\* commit on main.
C10_FailedWritesNotCommitted ==
    \A p \in Procs :
        thrown[p] \in UowErrors
        => \A c \in wrote[p] : \A h \in NewCommits : commits[h].data[c] # p

\* C11: the step that answers a mutation CONFLICT is the first statement
\* the mutation sends: it changes neither the history, the staging area
\* nor the working set of main, the mutation has written nothing and has
\* made no commit, and the answer carries no result and no new version.
C11_ConflictLeavesTrunk ==
    [][ \A p \in Procs :
          (outcome[p] # "CONFLICT" /\ outcome'[p] = "CONFLICT")
          => /\ pc[p] = "check"
             /\ store' = store
             /\ wrote'[p] = {}
             /\ \A h \in NewCommits : commits[h].by # p
             /\ result'[p] = 0
             /\ newVersion'[p] = NoVersion ]_vars

C11_Witness ==
    \E p \in Procs :
        /\ outcome[p] = "CONFLICT"
        /\ Valid(p)
        /\ \E c \in Writes(p) : HeadData[c] # 0

C13_CommitOnlyAtVersion ==
    /\ \A h \in NewCommits :
          req[commits[h].by].version # NoVersion
          => req[commits[h].by].version = h - 1
    /\ \A p, q \in Procs :
          ConcurrentSameBase(p, q)
          => ~(outcome[p] = "OK" /\ outcome[q] = "OK")

\* C14: the version answered to a successful mutation is the HEAD the next
\* version check reads: a mutation made with it as its version, while no
\* mutation other than these two has been made, is never answered
\* CONFLICT, and if its unit of work throws nothing it succeeds with a
\* commit whose parent is that version.
C14_ReturnedVersionAccepted ==
    \A p, q \in Procs :
        ( /\ p # q
          /\ outcome[p] = "OK"
          /\ pc[q] # "idle"
          /\ req[q].version = newVersion[p]
          /\ \A r \in Procs \ {p, q} : pc[r] = "idle" )
        => /\ outcome[q] # "CONFLICT"
           /\ seenHead[q] \in {NoVersion, newVersion[p]}
           /\ (Done(q) /\ Valid(q))
              => /\ outcome[q] = "OK"
                 /\ newVersion[q] = newVersion[p] + 1

C14_Witness ==
    \E p, q \in Procs :
        /\ p # q
        /\ outcome[p] = "OK" /\ outcome[q] = "OK"
        /\ req[q].version = newVersion[p]
        /\ seenHead[q] = newVersion[p]

\* C15: the step that answers a mutation success makes exactly one commit,
\* authored by the mutation; the new version answered is the hash of that
\* commit, which is HEAD of main right after the step and holds every
\* cell the mutation wrote (and no other mutation wrote), and the result
\* answered is the value the unit of work returned.
C15_SuccessReturnsOwnHead ==
    [][ \A p \in Procs :
          (outcome[p] # "OK" /\ outcome'[p] = "OK")
          => /\ Len(commits') = Len(commits) + 1
             /\ commits'[Len(commits')].by = p
             /\ newVersion'[p] = Len(commits')
             /\ \A c \in wrote[p] :
                   OnlyWriter(p, c) => commits'[Len(commits')].data[c] = p
             /\ result'[p] = result[p] ]_vars

C15_Witness ==
    \E p \in Procs :
        /\ outcome[p] = "OK"
        /\ newVersion[p] = Len(commits)
        /\ commits[newVersion[p]].by = p
        /\ result[p] = p

\* C16: every REST mutation endpoint honours If-Match: a request that asks
\* for a change and is made with an If-Match value other than HEAD writes
\* nothing, is never answered success, and ends answered 409 with the
\* current HEAD.
C16_EveryRouteHonoursIfMatch ==
    \A p \in Procs :
        ( /\ req[p].version # NoVersion
          /\ startHead[p] # req[p].version
          /\ (req[p].body \/ req[p].attr # NoAttr) )
        => /\ wrote[p] = {}
           /\ outcome[p] # "OK"
           /\ \A h \in NewCommits : commits[h].by # p
           /\ Done(p) => (outcome[p] = "CONFLICT" /\ details[p] >= startHead[p])

\* C19: all statements of one invocation run on one session, and no other
\* invocation in flight uses that session: a statement runs on a
\* connection other than the one the invocation's previous statement ran
\* on only if it is the invocation's first, and never on the connection
\* of another invocation that has not finished.
C19_DedicatedSession ==
    [][ \A p \in Procs :
          conn'[p] # conn[p]
          => /\ conn[p] = NoConn
             /\ \A q \in InFlight \ {p} : conn[q] # conn'[p] ]_vars

\* C21: a read with as_of = h, h the version answered to a successful
\* mutation, shows the cells that mutation wrote (and no other mutation
\* wrote) with its values, and no later step of any mutation changes what
\* that read returns.
C21_AsOfStable ==
    [][ \A p \in Procs :
          outcome[p] = "OK"
          => /\ \A c \in wrote[p] :
                   OnlyWriter(p, c) => asOfTable(newVersion[p])[c] = p
             /\ asOfTable(newVersion[p])' = asOfTable(newVersion[p]) ]_vars

C21_Witness ==
    \E p \in Procs :
        /\ outcome[p] = "OK"
        /\ newVersion[p] < Len(commits)
        /\ \E c \in wrote[p] : /\ asOfTable(newVersion[p])[c] = p
                               /\ asOfTable(NoVersion)[c] # p
                               /\ HeadData[c] # p

\* C22: each error kind is answered as itself by both front ends: a thrown
\* NotFoundError as not-found, a thrown InUseError as in-use, an empty
\* update as bad request, any error that is not an AppError as the generic
\* server error; a thrown error is never answered as a conflict or as
\* success, and a conflict answer is given exactly to the mutations whose
\* version check read a HEAD other than their version.
IsRest(p) == req[p].front = "rest"

ConflictAnswers == {"CONFLICT", "409 Conflict"}

C22_ErrorsKeepTheirKind ==
    \A p \in Procs :
        /\ thrown[p] = "NotFoundError"
           => outcome[p] = IF IsRest(p) THEN "404 not found" ELSE "NOT_FOUND"
        /\ thrown[p] = "InUseError"
           => outcome[p] = IF IsRest(p) THEN "409 still in use" ELSE "IN_USE"
        /\ thrown[p] \notin AppErrors \cup {"none"}
           => outcome[p] = IF IsRest(p) THEN "500 Internal server error"
                           ELSE "INTERNAL"
        /\ thrown[p] # "none" => outcome[p] \notin ConflictAnswers \cup {"OK"}
        /\ outcome[p] \in {"BAD_REQUEST", "400 No updates provided"}
           => (thrown[p] = "none" /\ req[p].attr = NoAttr
               /\ req[p].remove = NoAttr)
        /\ outcome[p] \in ConflictAnswers
           <=> (seenHead[p] # NoVersion /\ seenHead[p] # req[p].version)
        /\ outcome[p] \in ConflictAnswers
           => outcome[p] = IF IsRest(p) THEN "409 Conflict" ELSE "CONFLICT"

C22_Witness ==
    \E p, q \in Procs :
        /\ p # q
        /\ IsRest(p) /\ thrown[p] = "InUseError"
        /\ ~IsRest(q) /\ thrown[q] \notin AppErrors \cup {"none"}

\* C23: a type in use is never deleted: every attribute row in the working
\* set and in every commit references an existing type, and a delete of a
\* type that a row references fails with InUseError and deletes nothing,
\* also when the row was added while the delete was in progress.
Integrity(db) == \A r \in db.attrs : r.type \in db.types

C23_InUseTypeNeverDeleted ==
    [][ /\ Integrity(ws')
        /\ \A h \in 1 .. Len(commits') : Integrity(commits'[h].data)
        /\ \A p \in Procs :
              ( /\ req[p].route = "attributeTypes"
                /\ pc[p] \in {"countUsage", "deleteType"}
                /\ pc'[p] # pc[p]
                /\ InUse(ws, req[p].id) )
              => (thrown'[p] = "InUseError" /\ ws' = ws) ]_vars

\* C24: attributes.set is an upsert and attributes.remove removes by type:
\* right after the set of type T on item I the item has exactly one
\* attribute of type T, with the value set, whatever was there before;
\* right after remove [T] it has none; and at no time does the working
\* set or a commit hold two attributes of one type for one item.
OneRowPerType(db) ==
    \A i \in Items, t \in TypeIds : Cardinality(RowsOf(db.attrs, i, t)) <= 1

C24_SetIsUpsert ==
    [][ /\ OneRowPerType(ws')
        /\ \A h \in 1 .. Len(commits') : OneRowPerType(commits'[h].data)
        /\ \A p \in Procs :
              /\ (pc[p] = "upsert" /\ pc'[p] \notin {"upsert", "done"})
                 => \E r \in ws'.attrs :
                       /\ RowsOf(ws'.attrs, req[p].id, req[p].attr) = {r}
                       /\ r.value = p
              /\ (pc[p] = "delAttrs" /\ pc'[p] # "delAttrs")
                 => RowsOf(ws'.attrs, req[p].id, req[p].remove) = {} ]_vars

C24_Witness ==
    \E p, q \in Procs :
        /\ p # q
        /\ \E r \in ws.attrs : r.value = p /\ r.id # p
        /\ req[q].route = "itemAttributes"
        /\ req[q].attr # NoAttr /\ req[q].remove = req[q].attr
        /\ pc[q] \in {"getItem2", "add", "commit", "done"}
        /\ thrown[q] = "none"
        /\ RowsOf(ws.attrs, req[q].id, req[q].remove) = {}
----------------------------------------------------------------------------
\* the step moves HEAD of main
HeadMoves == doltHead' # doltHead

\* p is answered success in this step
Succeeds(p) == outcome[p] # "OK" /\ outcome'[p] = "OK"

\* the cells in which the new HEAD differs from the HEAD before the step
Brought == {c \in Cells : commits'[Len(commits')].data[c] # HeadData[c]}

\* C25: changes reach main one mutation at a time: HEAD moves exactly when
\* a mutation is answered success, by one commit whose parent is the HEAD
\* before, and that commit brings to main the changes of that mutation and
\* of no other.
C25_OneMutationPerAdvance ==
    [][ /\ HeadMoves <=> \E p \in Procs : Succeeds(p)
        /\ HeadMoves =>
              /\ Len(commits') = Len(commits) + 1
              /\ SubSeq(commits', 1, Len(commits)) = commits
              /\ \E p \in Procs :
                    /\ Succeeds(p)
                    /\ commits'[Len(commits')].by = p
                    /\ newVersion'[p] = doltHead'
                    /\ Brought \subseteq wrote[p] ]_vars

\* the part of C25 about HEAD alone: it moves exactly when a mutation is
\* answered success, to a child of the HEAD before
HeadAdvancesOncePerSuccess ==
    [][ /\ HeadMoves <=> \E p \in Procs : Succeeds(p)
        /\ HeadMoves =>
              /\ Len(commits') = Len(commits) + 1
              /\ SubSeq(commits', 1, Len(commits)) = commits
              /\ \E p \in Procs :
                    /\ Succeeds(p)
                    /\ commits'[Len(commits')].by = p
                    /\ newVersion'[p] = doltHead' ]_vars

----------------------------------------------------------------------------
\* the answers a caller can tell apart: success with the new version, the
\* conflict with the current head, or the error that was raised
Answered(p) ==
    /\ Done(p)
    /\ outcome[p] # "pending"
    /\ outcome[p] = "OK" <=> newVersion[p] # NoVersion
    /\ outcome[p] = Conflict(req[p]) <=> details[p] # NoVersion
    /\ outcome[p] \notin {"OK", Conflict(req[p]), NoUpdates(req[p])}
          <=> thrown[p] # "none"
    /\ thrown[p] # "none" => outcome[p] = Answer(req[p], thrown[p])

----------------------------------------------------------------------------
\* a read tool without as_of has answered
ReadAnswered(p) ==
    /\ IsReader(p)
    /\ req[p].as_of = NoVersion
    /\ Done(p)
    /\ outcome[p] = "OK"

\* C29: the version a read tool answers without as_of names a commit whose
\* state equals the data answered with it, also when every value was
\* committed when it was read and a mutation committed before HEAD was read.
C29_VersionMatchesData ==
    \A p \in Procs :
        ReadAnswered(p) /\ dirty[p] = {}
        => \A c \in DOMAIN result[p] :
              result[p][c] = commits[newVersion[p]].data[c]

\* C30: a read of current state observes committed data only: no value a
\* read tool reads without as_of differs from the commit at HEAD at the
\* time of the read.
C30_ReadsOnlyCommitted ==
    \A p \in Procs : IsReader(p) => dirty[p] = {}

====
